---- MODULE Spec2Model ----
(***************************************************************************)
(* Model of minitorch/module.py: the labelled 2D dataset generators        *)
(* (make_pts, simple, diag, split, xor, circle, spiral), the Graph record  *)
(* they return and the `datasets` registry.                                *)
(*                                                                         *)
(* Representation.                                                         *)
(*  - A coordinate produced by random.random() is an integer number of     *)
(*    tenths (0 stands for 0.0, 5 for 0.5, 9 for 0.9); sums of             *)
(*    coordinates are in tenths and products in hundredths, so 0.5, 0.2,   *)
(*    0.8 are 5, 2, 8 and the squared radius 0.1 is 10.                    *)
(*  - A spiral coordinate is kept as the term the code evaluates: which    *)
(*    helper (x or y) is applied to which argument c * (i / half).         *)
(*  - Python lists are objects on a heap: heap[id] is the content of the   *)
(*    list with identity id, and a Graph holds the ids of its X and y.     *)
(*  - rng is the stream of values random.random() has produced so far; its *)
(*    length is the position of the process-wide random source.            *)
(***************************************************************************)
EXTENDS Integers, Sequences, FiniteSets, TLC

VARIABLES rng, heap, returned, registry, looked

vars == <<rng, heap, returned, registry, looked>>

\* ---- bounds --------------------------------------------------------------
MaxCalls == 2
MaxPts == 2
MaxN == 3
MaxSpiralN == 11

\* values random.random() may yield (tenths)
CoarseVals == {0, 5, 8}
FineVals == {0, 2, 5, 6, 8, 9}

Generators == {"simple", "diag", "split", "xor", "circle", "spiral"}
Keys == {"Simple", "Diag", "Split", "Xor", "Circle", "Spiral",
         "xor", "Unknown"}

\* ---- Python primitives ---------------------------------------------------
\* range(a, b) as the sequence a, a+1, ..., b-1 (empty when b <= a)
range(a, b) == [k \in 1..(IF b > a THEN b - a ELSE 0) |-> a + k - 1]

\* [v] * n (empty when n <= 0)
repeat(v, n) == [k \in 1..(IF n > 0 THEN n ELSE 0) |-> v]

\* a new list object with content v; its identity is Len(h) + 1
Alloc(h, v) == Append(h, v)

\* an exception leaving the call: no Graph is produced
Raise(e) == [kind |-> e, N |-> 0, X |-> 0, y |-> 0]

\* ---- module.py -----------------------------------------------------------
Graph(N, X, labels) == [kind |-> "Graph", N |-> N, X |-> X, y |-> labels]

\* variants of make_pts used to test the properties below
make_pts_short(N, h, d) ==
    LET X == [i \in DOMAIN range(1, N) |-> <<d[2 * i - 1], d[2 * i]>>]
    IN  [heap |-> Alloc(h, X), X |-> Len(h) + 1]

make_pts_swapped(N, h, d) ==
    LET X == [i \in DOMAIN range(0, N) |-> <<d[2 * i], d[2 * i - 1]>>]
    IN  [heap |-> Alloc(h, X), X |-> Len(h) + 1]

\* make_pts: d is the stream of values the random source yields to this call
make_pts(N, h, d) ==
    LET X == [i \in DOMAIN range(0, N) |-> <<d[2 * i - 1], d[2 * i]>>]
    IN  [heap |-> Alloc(h, X), X |-> Len(h) + 1]

\* y = [] hoisted out of the function: the labels of every call pile up in
\* the label list of the call before
simple_acc(N, h, d) ==
    LET P == make_pts(N, h, d)
        X == P.heap[P.X]
        yl == [i \in DOMAIN X |-> IF X[i][1] < 5 THEN 1 ELSE 0]
    IN  IF Len(h) = 0
        THEN [heap |-> Alloc(P.heap, yl),
              out |-> Graph(N, P.X, Len(P.heap) + 1)]
        ELSE [heap |-> [P.heap EXCEPT ![Len(h)] = @ \o yl],
              out |-> Graph(N, P.X, Len(h))]

\* the label list starts from the labels of the call before instead of []
simple_carry(N, h, d) ==
    LET P == make_pts(N, h, d)
        X == P.heap[P.X]
        yl == [i \in DOMAIN X |-> IF X[i][1] < 5 THEN 1 ELSE 0]
        y0 == IF Len(h) = 0 THEN <<>> ELSE h[Len(h)]
    IN  [heap |-> Alloc(P.heap, y0 \o yl),
         out |-> Graph(N, P.X, Len(P.heap) + 1)]

simple(N, h, d) ==
    LET P == make_pts(N, h, d)
        X == P.heap[P.X]
        yl == [i \in DOMAIN X |-> IF X[i][1] < 5 THEN 1 ELSE 0]
    IN  [heap |-> Alloc(P.heap, yl), out |-> Graph(N, P.X, Len(P.heap) + 1)]

diag(N, h, d) ==
    LET P == make_pts(N, h, d)
        X == P.heap[P.X]
        yl == [i \in DOMAIN X |-> IF X[i][1] + X[i][2] < 5 THEN 1 ELSE 0]
    IN  [heap |-> Alloc(P.heap, yl), out |-> Graph(N, P.X, Len(P.heap) + 1)]

split(N, h, d) ==
    LET P == make_pts(N, h, d)
        X == P.heap[P.X]
        yl == [i \in DOMAIN X |->
                 IF X[i][1] < 2 \/ X[i][1] > 8 THEN 1 ELSE 0]
    IN  [heap |-> Alloc(P.heap, yl), out |-> Graph(N, P.X, Len(P.heap) + 1)]

xor(N, h, d) ==
    LET P == make_pts(N, h, d)
        X == P.heap[P.X]
        yl == [i \in DOMAIN X |->
                 IF \/ X[i][1] < 5 /\ X[i][2] > 5
                    \/ X[i][1] > 5 /\ X[i][2] < 5 THEN 1 ELSE 0]
    IN  [heap |-> Alloc(P.heap, yl), out |-> Graph(N, P.X, Len(P.heap) + 1)]

circle_ge(N, h, d) ==
    LET P == make_pts(N, h, d)
        X == P.heap[P.X]
        yl == [i \in DOMAIN X |->
                 LET x1 == X[i][1] - 5
                     x2 == X[i][2] - 5
                 IN  IF x1 * x1 + x2 * x2 >= 10 THEN 1 ELSE 0]
    IN  [heap |-> Alloc(P.heap, yl), out |-> Graph(N, P.X, Len(P.heap) + 1)]

circle(N, h, d) ==
    LET P == make_pts(N, h, d)
        X == P.heap[P.X]
        yl == [i \in DOMAIN X |->
                 LET x1 == X[i][1] - 5
                     x2 == X[i][2] - 5
                 IN  IF x1 * x1 + x2 * x2 > 10 THEN 1 ELSE 0]
    IN  [heap |-> Alloc(P.heap, yl), out |-> Graph(N, P.X, Len(P.heap) + 1)]

\* the helpers of spiral: x(t) = t * cos(t) / 20, y(t) = t * sin(t) / 20
x(t) == [f |-> "x", t |-> t]
y(t) == [f |-> "y", t |-> t]

\* c * (float(i) / n); the division is undefined for n = 0
arg(c, i, n) == [c |-> c, i |-> i, n |-> n]

spiral_range_from0(N) == range(0, N \div 2)
spiral_range_ceil(N) == range(5 + 0, 5 + ((N + 1) \div 2))

\* range(5 + 0, 5 + N // 2)
spiral_range(N) == range(5 + 0, 5 + (N \div 2))

spiral(N, h, d) ==
    LET half == N \div 2
        idx == spiral_range(N)
        A == [k \in DOMAIN idx |->
                <<x(arg(10, idx[k], half)), y(arg(10, idx[k], half))>>]
        B == [k \in DOMAIN idx |->
                <<y(arg(-10, idx[k], half)), x(arg(-10, idx[k], half))>>]
        y2 == repeat(0, half) \o repeat(1, half)
        h1 == Alloc(h, A \o B)
    IN  IF \E k \in DOMAIN idx : half = 0
        THEN [heap |-> h, out |-> Raise("ZeroDivisionError")]
        ELSE [heap |-> Alloc(h1, y2),
              out |-> Graph(N, Len(h) + 1, Len(h1) + 1)]

\* number of random.random() calls generator g makes for N
draws(g, N) == IF g = "spiral" THEN 0 ELSE 2 * Len(range(0, N))

datasets_swapped ==
    [k \in {"Simple", "Diag", "Split", "Xor", "Circle", "Spiral"} |->
               CASE k = "Simple" -> "simple"
                 [] k = "Diag"   -> "diag"
                 [] k = "Split"  -> "split"
                 [] k = "Xor"    -> "circle"
                 [] k = "Circle" -> "xor"
                 [] k = "Spiral" -> "spiral"]

datasets == [k \in {"Simple", "Diag", "Split", "Xor", "Circle", "Spiral"} |->
               CASE k = "Simple" -> "simple"
                 [] k = "Diag"   -> "diag"
                 [] k = "Split"  -> "split"
                 [] k = "Xor"    -> "xor"
                 [] k = "Circle" -> "circle"
                 [] k = "Spiral" -> "spiral"]

\* dct[key]
getitem(dct, key) ==
    IF key \in DOMAIN dct THEN [kind |-> "fn", gen |-> dct[key]]
    ELSE [kind |-> "KeyError", gen |-> ""]

\* calling the function object g
Apply(g, N, h, d) ==
    CASE g = "simple" -> simple(N, h, d)
      [] g = "diag"   -> diag(N, h, d)
      [] g = "split"  -> split(N, h, d)
      [] g = "xor"    -> xor(N, h, d)
      [] g = "circle" -> circle(N, h, d)
      [] g = "spiral" -> spiral(N, h, d)

\* ---- state machine -------------------------------------------------------
NoLookup == [key |-> "", kind |-> "direct", gen |-> ""]

Init ==
    /\ rng = <<>>
    /\ heap = <<>>
    /\ returned = <<>>
    /\ registry = datasets
    /\ looked = NoLookup

\* g(N) runs to completion; the caller keeps what it returns
Invoke(g, N, vals) ==
    /\ Len(rng) + draws(g, N) <= 2 * MaxPts
    /\ \E d \in [1..draws(g, N) -> vals] :
         LET r == Apply(g, N, heap, d)
         IN  /\ rng' = rng \o d
             /\ heap' = r.heap
             /\ returned' = Append(returned,
                   [gen |-> g, N |-> N, start |-> Len(rng), out |-> r.out])

\* a caller calls a generator function by name: g(N)
CallDirect(maxcalls, ns, vals) ==
    /\ Len(returned) < maxcalls
    /\ \E g \in Generators, N \in ns :
         /\ Invoke(g, N, vals)
         /\ looked' = NoLookup
         /\ UNCHANGED registry

\* a caller goes through the registry: datasets[key](N)
CallByKey(maxcalls, ns, vals) ==
    /\ Len(returned) < maxcalls
    /\ \E key \in Keys, N \in ns :
         LET f == getitem(registry, key)
         IN  /\ looked' = [key |-> key, kind |-> f.kind, gen |-> f.gen]
             /\ IF f.kind = "fn"
                THEN Invoke(f.gen, N, vals)
                ELSE UNCHANGED <<rng, heap, returned>>
             /\ UNCHANGED registry

\* several calls in one process, coarse values
Call == CallDirect(MaxCalls, -1..MaxN, CoarseVals)
Lookup == CallByKey(MaxCalls, -1..MaxN, CoarseVals)
Next == Call \/ Lookup
Spec == Init /\ [][Next]_vars

\* one call, fine values, the whole range of N
CallOne == CallDirect(1, -3..MaxSpiralN, FineVals)
LookupOne == CallByKey(1, -3..MaxSpiralN, FineVals)
NextOne == CallOne \/ LookupOne
SpecOne == Init /\ [][NextOne]_vars

\* ---- properties ----------------------------------------------------------
Uniform == {"simple", "diag", "split", "xor", "circle"}
Recs == {returned[k] : k \in DOMAIN returned}
IsGraph(r) == r.out.kind = "Graph"
Pts(r) == heap[r.out.X]
Lbl(r) == heap[r.out.y]
\* rng position at which the k-th returned call ended
EndOf(k) == IF k < Len(returned) THEN returned[k + 1].start ELSE Len(rng)
DrawsOf(k) == SubSeq(rng, returned[k].start + 1, EndOf(k))

\* C1: a uniform generator called with N >= 0 returns a Graph whose count is
\* N, with exactly N points and N labels, every label 0 or 1.
C1_UniformShape ==
    \A r \in Recs :
        (r.gen \in Uniform /\ r.N >= 0) =>
            /\ IsGraph(r)
            /\ r.out.N = r.N
            /\ Len(Pts(r)) = r.N
            /\ Len(Lbl(r)) = r.N
            /\ \A i \in DOMAIN Lbl(r) : Lbl(r)[i] \in {0, 1}

C1_Witness ==
    \E r \in Recs :
        /\ r.gen \in Uniform /\ r.N = 2 /\ IsGraph(r)
        /\ Lbl(r) = <<1, 0>>

\* the labelling rules as the documentation states them (tenths)
Rule(g, p) ==
    CASE g = "simple" -> IF p[1] < 5 THEN 1 ELSE 0
      [] g = "diag"   -> IF p[1] + p[2] < 5 THEN 1 ELSE 0
      [] g = "split"  -> IF p[1] < 2 \/ p[1] > 8 THEN 1 ELSE 0
      [] g = "xor"    -> IF (p[1] < 5 /\ p[2] > 5) \/ (p[1] > 5 /\ p[2] < 5)
                         THEN 1 ELSE 0
      [] g = "circle" -> IF (p[1] - 5) * (p[1] - 5) + (p[2] - 5) * (p[2] - 5)
                            > 10 THEN 1 ELSE 0

OnBoundary(g, p) ==
    CASE g = "simple" -> p[1] = 5
      [] g = "diag"   -> p[1] + p[2] = 5
      [] g = "split"  -> p[1] = 2 \/ p[1] = 8
      [] g = "xor"    -> p[1] = 5 \/ p[2] = 5
      [] g = "circle" -> (p[1] - 5) * (p[1] - 5) + (p[2] - 5) * (p[2] - 5)
                            = 10

\* C2: labels[i] is the generator's rule applied to points[i], with strict
\* comparisons: a point exactly on a boundary is labelled 0.
C2_LabelRule ==
    \A r \in Recs :
        (r.gen \in Uniform /\ IsGraph(r)) =>
            /\ DOMAIN Lbl(r) = DOMAIN Pts(r)
            /\ \A i \in DOMAIN Pts(r) :
                 /\ Lbl(r)[i] = Rule(r.gen, Pts(r)[i])
                 /\ OnBoundary(r.gen, Pts(r)[i]) => Lbl(r)[i] = 0

C2_Witness ==
    \E r \in Recs :
        /\ r.gen = "circle" /\ r.N = 2 /\ IsGraph(r)
        /\ Pts(r) = <<<<0, 0>>, <<6, 8>>>>
        /\ Lbl(r) = <<1, 0>>

\* the spiral points as the documentation states them
ArmA(i, half) == <<[f |-> "x", t |-> [c |-> 10, i |-> i, n |-> half]],
                   [f |-> "y", t |-> [c |-> 10, i |-> i, n |-> half]]>>
ArmB(i, half) == <<[f |-> "y", t |-> [c |-> -10, i |-> i, n |-> half]],
                   [f |-> "x", t |-> [c |-> -10, i |-> i, n |-> half]]>>

\* C3: spiral(N), N >= 0, returns 2*(N//2) points and labels: the arm A
\* points for i = 5 .. 5+N//2-1 with label 0, then the arm B points for the
\* same i with label 1; the length is N for even N and N-1 for odd N.
C3_SpiralLayout ==
    \A r \in Recs :
        (r.gen = "spiral" /\ r.N >= 0) =>
            LET half == r.N \div 2 IN
            /\ IsGraph(r)
            /\ Len(Pts(r)) = 2 * half
            /\ Len(Lbl(r)) = 2 * half
            /\ \A k \in 1..half :
                 /\ Pts(r)[k] = ArmA(4 + k, half)
                 /\ Lbl(r)[k] = 0
                 /\ Pts(r)[half + k] = ArmB(4 + k, half)
                 /\ Lbl(r)[half + k] = 1
            /\ Len(Pts(r)) = IF r.N % 2 = 0 THEN r.N ELSE r.N - 1
            /\ r.N = 10 => Lbl(r) = <<0, 0, 0, 0, 0, 1, 1, 1, 1, 1>>
            /\ r.N = 11 => Len(Pts(r)) = 10

C3_Witness ==
    \E r \in Recs :
        /\ r.gen = "spiral" /\ r.N = 11 /\ IsGraph(r)
        /\ Len(Pts(r)) = 10
        /\ Lbl(r) = <<0, 0, 0, 0, 0, 1, 1, 1, 1, 1>>

\* C4: a call with a negative N fails with InvalidArgument and returns no
\* Dataset.
C4_NegativeRejected ==
    \A r \in Recs : r.N < 0 => r.out.kind = "InvalidArgument"

\* C5: every Dataset returned by any of the six generators for N >= 0 has
\* as many points as labels, and that many is its count field.
C5_CountInvariant ==
    \A r \in Recs :
        (r.N >= 0 /\ IsGraph(r)) =>
            /\ Len(Pts(r)) = Len(Lbl(r))
            /\ Len(Pts(r)) = r.out.N

\* the registry as the documentation states it
KeyGen(k) ==
    CASE k = "Simple" -> "simple"
      [] k = "Diag"   -> "diag"
      [] k = "Split"  -> "split"
      [] k = "Xor"    -> "xor"
      [] k = "Circle" -> "circle"
      [] k = "Spiral" -> "spiral"
      [] OTHER        -> ""

\* C6: lookup succeeds exactly for the six keys, the generator obtained
\* behaves as the corresponding generator called directly, and any other key
\* fails with KeyError (NotFound) and yields no generator.
C6_Registry ==
    looked.kind # "direct" =>
        IF KeyGen(looked.key) # ""
        THEN /\ looked.kind = "fn"
             /\ looked.gen = KeyGen(looked.key)
             /\ Len(returned) > 0
             /\ LET r == returned[Len(returned)]
                    g == KeyGen(looked.key)
                    half == r.N \div 2
                IN  /\ r.gen = g
                    /\ (g \in Uniform /\ IsGraph(r)) =>
                         /\ DOMAIN Lbl(r) = DOMAIN Pts(r)
                         /\ \A i \in DOMAIN Pts(r) :
                              Lbl(r)[i] = Rule(g, Pts(r)[i])
                    /\ (g = "spiral" /\ IsGraph(r)) =>
                         /\ Len(Pts(r)) = 2 * Len(range(0, half))
                         /\ \A k \in 1..half :
                              /\ Pts(r)[k] = ArmA(4 + k, half)
                              /\ Pts(r)[half + k] = ArmB(4 + k, half)
        ELSE /\ looked.kind = "KeyError"
             /\ looked.gen = ""

C6_Witness ==
    /\ looked.key = "Xor" /\ looked.kind = "fn"
    /\ Len(returned) = 2
    /\ returned[2].gen = "xor" /\ returned[2].N = 1
    /\ Pts(returned[2]) = <<<<0, 0>>>>
    /\ Lbl(returned[2]) = <<0>>

\* C7: for N >= 0 every generator completes without an arithmetic error;
\* spiral(0) and spiral(1) return a Dataset with no points and no labels.
C7_NoArithmeticError ==
    \A r \in Recs :
        r.N >= 0 =>
            /\ IsGraph(r)
            /\ (r.gen = "spiral" /\ r.N \in {0, 1}) =>
                   (Pts(r) = <<>> /\ Lbl(r) = <<>>)

C7_Witness ==
    \E r \in Recs :
        r.gen = "spiral" /\ r.N = 1 /\ IsGraph(r) /\ Pts(r) = <<>>

\* C8: two calls of the same generator with the same N that receive the same
\* sequence of draws return identical points and labels; two spiral calls
\* with the same N return identical points and labels whatever the state of
\* the random source.
C8_Deterministic ==
    \A i, j \in DOMAIN returned :
        (/\ i < j
         /\ returned[i].gen = returned[j].gen
         /\ returned[i].N = returned[j].N
         /\ DrawsOf(i) = DrawsOf(j)) =>
            /\ returned[i].out.kind = returned[j].out.kind
            /\ IsGraph(returned[i]) =>
                 /\ Pts(returned[i]) = Pts(returned[j])
                 /\ Lbl(returned[i]) = Lbl(returned[j])

C8_Witness ==
    /\ Len(returned) = 2
    /\ returned[1].gen = "simple" /\ returned[2].gen = "simple"
    /\ returned[1].N = 1 /\ returned[2].N = 1
    /\ DrawsOf(1) = <<0, 5>> /\ DrawsOf(2) = <<0, 5>>
    /\ Lbl(returned[2]) = <<1>>
    /\ returned[1].out.X # returned[2].out.X

\* the list objects a returned Graph refers to
Objs(r) == IF IsGraph(r) THEN {r.out.X, r.out.y} ELSE {}

\* C9: a returned Dataset never changes afterwards, and no two returned
\* Datasets share a point or label list.
C9_Immutable ==
    [][ /\ \A k \in DOMAIN returned :
             /\ k \in DOMAIN returned'
             /\ returned'[k] = returned[k]
             /\ \A o \in Objs(returned[k]) :
                  o \in DOMAIN heap' /\ heap'[o] = heap[o]
        /\ \A i, j \in DOMAIN returned' :
             /\ i # j => Objs(returned'[i]) \cap Objs(returned'[j]) = {}
             /\ IsGraph(returned'[i]) =>
                  returned'[i].out.X # returned'[i].out.y ]_vars

C9_Witness ==
    /\ Len(returned) = 2
    /\ IsGraph(returned[1]) /\ IsGraph(returned[2])
    /\ returned[1].gen = "simple" /\ returned[1].N = 1
    /\ returned[2].gen = "split" /\ returned[2].N = 1
    /\ looked.key = "Split"

\* C10: a uniform generator called with N >= 0 consumes exactly 2*N draws,
\* points[i] being (draw 2i, draw 2i+1); spiral consumes none and leaves the
\* random source unchanged; no call modifies the registry.
C10_Draws ==
    [][ /\ registry' = registry
        /\ SubSeq(rng', 1, Len(rng)) = rng
        /\ Len(returned') = Len(returned) + 1 =>
             LET r == returned'[Len(returned')] IN
             /\ r.start = Len(rng)
             /\ (r.gen \in Uniform /\ r.N >= 0) =>
                  /\ Len(rng') = Len(rng) + 2 * r.N
                  /\ \A i \in 1..r.N :
                       heap'[r.out.X][i] = <<rng'[Len(rng) + 2 * i - 1],
                                            rng'[Len(rng) + 2 * i]>>
             /\ r.gen = "spiral" => rng' = rng
        /\ Len(returned') = Len(returned) => rng' = rng ]_vars

C10_Witness ==
    /\ Len(returned) = 2
    /\ returned[1].gen = "xor" /\ returned[1].N = 2
    /\ rng = <<0, 5, 8, 0>>
    /\ Pts(returned[1]) = <<<<0, 5>>, <<8, 0>>>>
    /\ returned[2].gen = "spiral" /\ returned[2].N = 2

====
